---- MODULE Spec2Model ----
(***************************************************************************)
(* Ingredient normalisation and BM25 recipe index of the Snap2Recipe API.  *)
(*                                                                         *)
(* Text is a TLA+ string, i.e. a sequence of characters; every text        *)
(* operation below works character by character, as the Python code does. *)
(* BM25 scores are fixed-point numbers in units of 1/Scale.                *)
(***************************************************************************)
EXTENDS Integers, Sequences, FiniteSets, TLC

(***************************************************************************)
(* Characters and the str / re primitives used by text_norm.py             *)
(***************************************************************************)
UpperChars == "ABCDEFGHIJKLMNOPQRSTUVWXYZ"
LowerChars == "abcdefghijklmnopqrstuvwxyz"
DigitChars == "0123456789"

\* the characters of the string s
CharSet(s) == {SubSeq(s, i, i) : i \in 1..Len(s)}

UpperSet == CharSet(UpperChars)
LowerSet == CharSet(LowerChars)
DigitSet == CharSet(DigitChars)

IsDigit(c) == c \in DigitSet

\* \s of the re module, str.strip() and str.split()
IsSpace(c) == c \in {" ", "\t", "\n"}

\* \w of the re module
WordSet == LowerSet \cup UpperSet \cup DigitSet \cup {"_"}
IsWordChar(c) == c \in WordSet

LowerOf == [c \in UpperSet |->
               LET i == CHOOSE j \in 1..Len(UpperChars) : SubSeq(UpperChars, j, j) = c
               IN  SubSeq(LowerChars, i, i)]

LowerChar(c) == IF c \in UpperSet THEN LowerOf[c] ELSE c

\* str.lower()
RECURSIVE lower(_)
lower(s) == IF s = "" THEN "" ELSE LowerChar(Head(s)) \o lower(Tail(s))

RECURSIVE lstrip(_)
lstrip(s) == IF s # "" /\ IsSpace(Head(s)) THEN lstrip(Tail(s)) ELSE s

RECURSIVE rstrip(_)
rstrip(s) ==
    IF s # "" /\ IsSpace(SubSeq(s, Len(s), Len(s)))
    THEN rstrip(SubSeq(s, 1, Len(s) - 1))
    ELSE s

\* str.strip()
strip(s) == rstrip(lstrip(s))

RECURSIVE SplitAcc(_, _, _)
SplitAcc(s, cur, acc) ==
    IF s = ""
    THEN IF cur = "" THEN acc ELSE Append(acc, cur)
    ELSE IF IsSpace(Head(s))
         THEN SplitAcc(Tail(s), "", IF cur = "" THEN acc ELSE Append(acc, cur))
         ELSE SplitAcc(Tail(s), cur \o Head(s), acc)

\* str.split(): the pieces between runs of whitespace, none of them empty
split(s) == SplitAcc(s, "", <<>>)

RECURSIVE SplitOnAcc(_, _, _, _)
SplitOnAcc(s, sep, cur, acc) ==
    IF s = ""
    THEN Append(acc, cur)
    ELSE IF Head(s) = sep
         THEN SplitOnAcc(Tail(s), sep, "", Append(acc, cur))
         ELSE SplitOnAcc(Tail(s), sep, cur \o Head(s), acc)

\* str.split(sep) for a one-character separator: empty pieces are kept
split_on(s, sep) == SplitOnAcc(s, sep, "", <<>>)

\* sep.join(words)
RECURSIVE join(_, _)
join(sep, words) ==
    IF words = <<>> THEN ""
    ELSE IF Len(words) = 1 THEN words[1]
    ELSE words[1] \o sep \o join(sep, Tail(words))

\* re.sub(r'[^\w\s-]', ' ', text)
RECURSIVE sub_punct(_)
sub_punct(s) ==
    IF s = "" THEN ""
    ELSE LET c == Head(s)
         IN  (IF IsWordChar(c) \/ IsSpace(c) \/ c = "-" THEN c ELSE " ")
                 \o sub_punct(Tail(s))

\* s.endswith(suf) and s.startswith(pre)
EndsWith(s, suf) == Len(suf) <= Len(s) /\ SubSeq(s, Len(s) - Len(suf) + 1, Len(s)) = suf
StartsWith(s, pre) == Len(pre) <= Len(s) /\ SubSeq(s, 1, Len(pre)) = pre

\* the elements of a sequence that are not in S, in order
RejectSeqSet(seq, S) == SelectSeq(seq, LAMBDA e : e \notin S)

(***************************************************************************)
(* WordNetLemmatizer.lemmatize(word) with the default part of speech, noun *)
(* (text_norm.py line 92): WordNet's morphy, then the shortest lemma.      *)
(***************************************************************************)
\* The nouns of WordNet among the words of this model's vocabulary.
WordNetNouns ==
    { "chicken", "breast", "rice", "soy", "sauce", "tomato", "pasta", "basil",
      "egg", "onion", "green", "scallion", "cup", "pepper", "salt", "water",
      "oil", "taste", "ground", "garlic", "bowl", "bean", "pea", "potato",
      "noodle", "carrot", "mushroom", "g", "l" }

\* WordNet's noun exception list (noun.exc), restricted to the vocabulary.
NounExceptions == [w \in {"tomatoes", "potatoes"} |->
                       IF w = "tomatoes" THEN <<"tomato">> ELSE <<"potato">>]

\* MORPHOLOGICAL_SUBSTITUTIONS[NOUN]: (old suffix, new suffix)
Substitutions ==
    << <<"s", "">>, <<"ses", "s">>, <<"ves", "f">>, <<"xes", "x">>,
       <<"zes", "z">>, <<"ches", "ch">>, <<"shes", "sh">>,
       <<"men", "man">>, <<"ies", "y">> >>

RECURSIVE RulesOn(_, _)
RulesOn(form, i) ==
    IF i > Len(Substitutions) THEN <<>>
    ELSE (IF EndsWith(form, Substitutions[i][1])
          THEN <<SubSeq(form, 1, Len(form) - Len(Substitutions[i][1]))
                     \o Substitutions[i][2]>>
          ELSE <<>>) \o RulesOn(form, i + 1)

RECURSIVE apply_rules(_)
apply_rules(forms) ==
    IF forms = <<>> THEN <<>>
    ELSE RulesOn(forms[1], 1) \o apply_rules(Tail(forms))

Contains(seq, e) == \E i \in 1..Len(seq) : seq[i] = e

RECURSIVE FilterAcc(_, _)
FilterAcc(forms, acc) ==
    IF forms = <<>> THEN acc
    ELSE FilterAcc(Tail(forms),
                   IF forms[1] \in WordNetNouns /\ ~Contains(acc, forms[1])
                   THEN Append(acc, forms[1]) ELSE acc)

\* the forms WordNet knows as nouns, each once, in order
filter_forms(forms) == FilterAcc(forms, <<>>)

\* step 3 of morphy: apply the rules again until a known form appears
RECURSIVE MorphyLoop(_)
MorphyLoop(forms) ==
    IF forms = <<>> THEN <<>>
    ELSE IF filter_forms(apply_rules(forms)) # <<>>
         THEN filter_forms(apply_rules(forms))
         ELSE MorphyLoop(apply_rules(forms))

morphy(form) ==
    IF form \in DOMAIN NounExceptions
    THEN filter_forms(<<form>> \o NounExceptions[form])
    ELSE IF filter_forms(<<form>> \o apply_rules(<<form>>)) # <<>>
         THEN filter_forms(<<form>> \o apply_rules(<<form>>))
         ELSE MorphyLoop(apply_rules(<<form>>))

\* min(lemmas, key=len) if lemmas else word: the first lemma of least length
ShortestOr(lemmas, word) ==
    IF lemmas = <<>> THEN word
    ELSE lemmas[CHOOSE j \in 1..Len(lemmas) :
                  /\ \A m \in 1..Len(lemmas) : Len(lemmas[j]) <= Len(lemmas[m])
                  /\ \A m \in 1..(j - 1) : Len(lemmas[m]) > Len(lemmas[j])]

lemmatize(word) == ShortestOr(morphy(word), word)

(***************************************************************************)
(* TextNormalizer                                                          *)
(***************************************************************************)
\* self.stopwords (the default set)
stopwords == { "water", "salt", "pepper", "oil", "optional",
               "to", "taste", "fresh", "dried", "ground" }

\* self.plural_map
PluralKeys == { "tomatoes", "potatoes", "onions", "peppers", "mushrooms",
                "beans", "peas", "carrots", "eggs", "noodles" }
plural_map == [w \in PluralKeys |->
    CASE w = "tomatoes"  -> "tomato"
      [] w = "potatoes"  -> "potato"
      [] w = "onions"    -> "onion"
      [] w = "peppers"   -> "pepper"
      [] w = "mushrooms" -> "mushroom"
      [] w = "beans"     -> "bean"
      [] w = "peas"      -> "pea"
      [] w = "carrots"   -> "carrot"
      [] w = "eggs"      -> "egg"
      [] w = "noodles"   -> "noodle"]

\* lines 73-80: lowercase, strip, punctuation to spaces, single spaces
clean(text) == join(" ", split(sub_punct(strip(lower(text)))))

\* no lookup in the synonym table
apply_no_synonym(syn, text) == text

\* lines 82-84: the whole string is looked up in the synonym table
apply_synonym(syn, text) == IF text \in DOMAIN syn THEN syn[text] ELSE text

\* lines 86-88: the whole string is looked up in plural_map
apply_plural(text) == IF text \in DOMAIN plural_map THEN plural_map[text] ELSE text

\* lines 91-92: every word lemmatized
lemmatize_words(words) == [i \in 1..Len(words) |-> lemmatize(words[i])]

\* lines 94-96
drop_stopwords(words, remove_stopwords) ==
    IF remove_stopwords THEN RejectSeqSet(words, stopwords) ELSE words

\* TextNormalizer.normalize(text, remove_stopwords) with synonym table syn
normalize(syn, text, remove_stopwords) ==
    join(" ", drop_stopwords(
                  lemmatize_words(split(apply_plural(apply_synonym(syn, clean(text))))),
                  remove_stopwords))

\* TextNormalizer.normalize_list
normalize_list(syn, items, remove_stopwords) ==
    [i \in 1..Len(items) |-> normalize(syn, items[i], remove_stopwords)]

\* the length of the longest prefix of s made of digits (\d+ is greedy)
RECURSIVE DigitSpan(_)
DigitSpan(s) == IF s # "" /\ IsDigit(Head(s)) THEN 1 + DigitSpan(Tail(s)) ELSE 0

\* the length of the longest prefix of s made of whitespace (\s* is greedy)
RECURSIVE SpaceSpan(_)
SpaceSpan(s) == IF s # "" /\ IsSpace(Head(s)) THEN 1 + SpaceSpan(Tail(s)) ELSE 0

Drop(s, n) == SubSeq(s, n + 1, Len(s))

\* (cup|tbsp|tsp|oz|lb|g|kg|ml|l): the alternatives in the order re tries them
Units == <<"cup", "tbsp", "tsp", "oz", "lb", "g", "kg", "ml", "l">>

\* the first alternative that matches at the start of r, "" when none does
FirstUnit(r) ==
    IF \E i \in 1..Len(Units) : StartsWith(r, Units[i])
    THEN Units[CHOOSE i \in 1..Len(Units) :
                   /\ StartsWith(r, Units[i])
                   /\ \A j \in 1..(i - 1) : ~StartsWith(r, Units[j])]
    ELSE ""

\* (cup|...|l)s? at the start of r, after n characters already matched:
\* the length of the whole match, 0 when no unit follows
MatchUnit(r, n, u) ==
    IF u = "" THEN 0
    ELSE n + Len(u) + (IF StartsWith(Drop(r, Len(u)), "s") THEN 1 ELSE 0)

\* \s* and then the unit
MatchSpaces(r, n, ws) == MatchUnit(Drop(r, ws), n + ws, FirstUnit(Drop(r, ws)))

\* (\.\d+)? and the rest
MatchDecimal(r, n) ==
    IF StartsWith(r, ".") /\ DigitSpan(Tail(r)) > 0
    THEN MatchSpaces(Drop(r, 1 + DigitSpan(Tail(r))), n + 1 + DigitSpan(Tail(r)),
                     SpaceSpan(Drop(r, 1 + DigitSpan(Tail(r)))))
    ELSE MatchSpaces(r, n, SpaceSpan(r))

\* Length of the match of \d+(\.\d+)?\s*(cup|tbsp|tsp|oz|lb|g|kg|ml|l)s? at the
\* start of s, 0 when there is none.  Every quantifier is greedy and no
\* shorter choice lets the unit match, so there is one candidate.
MatchQuantity(s) ==
    IF DigitSpan(s) = 0 THEN 0 ELSE MatchDecimal(Drop(s, DigitSpan(s)), DigitSpan(s))

\* Length of the match of \d+/\d+ at the start of s, 0 when there is none.
MatchFraction(s) ==
    IF /\ DigitSpan(s) > 0
       /\ StartsWith(Drop(s, DigitSpan(s)), "/")
       /\ DigitSpan(Drop(s, DigitSpan(s) + 1)) > 0
    THEN DigitSpan(s) + 1 + DigitSpan(Drop(s, DigitSpan(s) + 1))
    ELSE 0

\* re.sub(pattern, '', s): the leftmost matches, one after the other, removed
RECURSIVE sub_quantity(_)
RemoveQuantityAt(s, m) ==
    IF m > 0 THEN sub_quantity(Drop(s, m)) ELSE Head(s) \o sub_quantity(Tail(s))

\* re.sub(r'\d+(\.\d+)?\s*(cup|tbsp|tsp|oz|lb|g|kg|ml|l)s?', '', item)
sub_quantity(s) == IF s = "" THEN "" ELSE RemoveQuantityAt(s, MatchQuantity(s))

RECURSIVE sub_fraction(_)
RemoveFractionAt(s, m) ==
    IF m > 0 THEN sub_fraction(Drop(s, m)) ELSE Head(s) \o sub_fraction(Tail(s))

\* re.sub(r'\d+/\d+', '', item)
sub_fraction(s) == IF s = "" THEN "" ELSE RemoveFractionAt(s, MatchFraction(s))

\* re.sub(r'\d+', '', item)
RECURSIVE sub_numbers(_)
sub_numbers(s) ==
    IF s = "" THEN ""
    ELSE (IF IsDigit(Head(s)) THEN "" ELSE Head(s)) \o sub_numbers(Tail(s))

\* lines 130-132
strip_quantities(item) == sub_numbers(sub_fraction(sub_quantity(item)))

\* lines 136-137: only non-empty results are kept
NonEmpty(norm) == IF norm # "" THEN <<norm>> ELSE <<>>

RECURSIVE TokenizeItems(_, _)
TokenizeItems(syn, items) ==
    IF items = <<>> THEN <<>>
    ELSE NonEmpty(normalize(syn, strip_quantities(items[1]), TRUE))
             \o TokenizeItems(syn, Tail(items))

\* [x.strip() for x in text.split(',')]
SplitTrim(text) == [i \in 1..Len(split_on(text, ",")) |-> strip(split_on(text, ",")[i])]

\* TextNormalizer.tokenize_ingredients: one element per comma-separated
\* segment that does not normalize to the empty string
tokenize_ingredients(syn, ingredients_str) ==
    TokenizeItems(syn, SplitTrim(ingredients_str))

LongWords(words) == SelectSeq(words, LAMBDA w : Len(w) > 2)

\* TextNormalizer.extract_key_terms
extract_key_terms(syn, text) == LongWords(split(normalize(syn, text, TRUE)))

(***************************************************************************)
(* The recipes CSV as csv.DictReader presents it                           *)
(***************************************************************************)
\* an absent value (Python None) and a present one
None == [none |-> TRUE, val |-> ""]
Some(x) == [none |-> FALSE, val |-> x]

\* 1-based position of col in the header row, 0 when the column is missing
ColumnIndex(header, col) ==
    IF \E i \in 1..Len(header) : header[i] = col
    THEN CHOOSE i \in 1..Len(header) :
             header[i] = col /\ \A j \in 1..(i - 1) : header[j] # col
    ELSE 0

\* col in row: DictReader gives every row the header's keys
HasKey(header, col) == ColumnIndex(header, col) > 0

\* row[col] for a key the row has: None (restval) where a short row ends
CellAt(fields, i) == IF i <= Len(fields) THEN Some(fields[i]) ELSE None
Cell(header, fields, col) == CellAt(fields, ColumnIndex(header, col))

DigitValue == [c \in DigitSet |->
                  (CHOOSE i \in 1..Len(DigitChars) : SubSeq(DigitChars, i, i) = c) - 1]

RECURSIVE DigitsValue(_, _)
DigitsValue(s, acc) ==
    IF s = "" THEN acc
    ELSE DigitsValue(Tail(s),
                     IF Head(s) = "_" THEN acc ELSE 10 * acc + DigitValue[Head(s)])

\* digits that single underscores may separate
WellFormedDigits(body) ==
    /\ body # ""
    /\ \A i \in 1..Len(body) :
           \/ IsDigit(SubSeq(body, i, i))
           \/ /\ SubSeq(body, i, i) = "_"
              /\ 1 < i /\ i < Len(body)
              /\ IsDigit(SubSeq(body, i - 1, i - 1))
              /\ IsDigit(SubSeq(body, i + 1, i + 1))

ParseBody(body, negative) ==
    IF WellFormedDigits(body)
    THEN [ok |-> TRUE,
          v  |-> IF negative THEN 0 - DigitsValue(body, 0) ELSE DigitsValue(body, 0)]
    ELSE [ok |-> FALSE, v |-> 0]

ParseSigned(t) ==
    IF StartsWith(t, "+") \/ StartsWith(t, "-")
    THEN ParseBody(Tail(t), StartsWith(t, "-"))
    ELSE ParseBody(t, FALSE)

\* int(text): surrounding whitespace, an optional sign, digits; anything
\* else raises ValueError (ok = FALSE)
ParseInt(text) == ParseSigned(strip(text))

NoScore == [kind |-> "none", v |-> 0]
Num(x) == [kind |-> "num", v |-> x]

NoTime == [none |-> TRUE, v |-> 0]

\* lines 47-52: a missing, empty or unparsable time is None
ParseTime(tm) ==
    IF tm.none \/ tm.val = "" \/ ~ParseInt(tm.val).ok
    THEN NoTime
    ELSE [none |-> FALSE, v |-> ParseInt(tm.val).v]

\* row.get('time_minutes')
TimeCell(header, fields) ==
    IF HasKey(header, "time_minutes") THEN Cell(header, fields, "time_minutes") ELSE None

RowSkip(e) == [kind |-> "skip", error |-> e]
RowRaise(e) == [kind |-> "raise", error |-> e]

\* lines 54-63: Recipe(...) validates title, instructions and cuisine as str
MakeRecipe(rid, ttl, ing, ins, cui, tag, tm) ==
    IF ttl.none \/ ins.none \/ cui.none THEN RowSkip("ValueError")
    ELSE [kind   |-> "recipe",
          error  |-> "",
          recipe |-> [id           |-> ParseInt(rid.val).v,
                      title        |-> ttl.val,
                      ingredients  |-> SplitTrim(ing.val),
                      instructions |-> ins.val,
                      cuisine      |-> cui.val,
                      tags         |-> SplitTrim(tag.val),
                      time_minutes |-> ParseTime(tm),
                      score        |-> NoScore]]

\* The body of the loop of _load_recipes for one row, in the order the code
\* evaluates it.  kind is "recipe" (appended), "skip" (KeyError or ValueError,
\* caught: a warning is printed) or "raise" (an exception the handler does
\* not catch leaves _load_recipes).
ParseRow(header, fields) ==
    IF ~HasKey(header, "ingredients") THEN RowSkip("KeyError")
    ELSE IF Cell(header, fields, "ingredients").none THEN RowRaise("AttributeError")
    ELSE IF ~HasKey(header, "tags") THEN RowSkip("KeyError")
    ELSE IF Cell(header, fields, "tags").none THEN RowRaise("AttributeError")
    ELSE IF ~HasKey(header, "id") THEN RowSkip("KeyError")
    ELSE IF Cell(header, fields, "id").none THEN RowRaise("TypeError")
    ELSE IF ~ParseInt(Cell(header, fields, "id").val).ok THEN RowSkip("ValueError")
    ELSE IF ~HasKey(header, "title") THEN RowSkip("KeyError")
    ELSE IF ~HasKey(header, "instructions") THEN RowSkip("KeyError")
    ELSE IF ~HasKey(header, "cuisine") THEN RowSkip("KeyError")
    ELSE MakeRecipe(Cell(header, fields, "id"), Cell(header, fields, "title"),
                    Cell(header, fields, "ingredients"),
                    Cell(header, fields, "instructions"),
                    Cell(header, fields, "cuisine"), Cell(header, fields, "tags"),
                    TimeCell(header, fields))

RECURSIVE LoadRows(_, _, _, _)
AfterRow(header, rest, loaded, nskipped, r) ==
    CASE r.kind = "recipe" -> LoadRows(header, rest, Append(loaded, r.recipe), nskipped)
      [] r.kind = "skip"   -> LoadRows(header, rest, loaded, nskipped + 1)
      [] r.kind = "raise"  -> [error |-> r.error, recipes |-> loaded, skipped |-> nskipped]

\* lines 38-66; a blank line reaches DictReader as an empty row and is passed over
LoadRows(header, rows, loaded, nskipped) ==
    IF rows = <<>>
    THEN [error |-> "", recipes |-> loaded, skipped |-> nskipped]
    ELSE IF rows[1] = <<>>
         THEN LoadRows(header, Tail(rows), loaded, nskipped)
         ELSE AfterRow(header, Tail(rows), loaded, nskipped, ParseRow(header, rows[1]))

\* RecipeIndexer._load_recipes: error is "" when it returns normally, the
\* name of the exception when it raises; skipped counts the warnings printed.
\* the same without a look at the file first
load_recipes_unchecked(src) == LoadRows(src.header, src.rows, <<>>, 0)

\* RecipeIndexer._load_recipes: the recipes, the warnings, and the exception
\* that leaves it
load_recipes(src) ==
    IF ~src.exists
    THEN [error |-> "FileNotFoundError", recipes |-> <<>>, skipped |-> 0]
    ELSE IF ~src.readable
    THEN [error |-> "PermissionError", recipes |-> <<>>, skipped |-> 0]
    ELSE LoadRows(src.header, src.rows, <<>>, 0)

(***************************************************************************)
(* rank_bm25.BM25Okapi(tokenized_corpus) with its default parameters, as   *)
(* called from _build_index and search.  Scores are integers in units of   *)
(* one millionth; every other quantity is exact.                           *)
(***************************************************************************)
\* k1 = 1.5, b = 0.75, epsilon = 0.25
K1Num == 3
K1Den == 2
BNum == 3
BDen == 4
EpsNum == 1
EpsDen == 4

\* 10^6 * ln(k) for k = 1, 3, 5, ..., 23
LnOdd == << 0, 1098612, 1609438, 1945910, 2197225, 2397895,
            2564949, 2708050, 2833213, 2944439, 3044522, 3135494 >>

\* math.log(x + 0.5) - math.log(y + 0.5) for naturals x and y
LogRatio(x, y) == LnOdd[x + 1] - LnOdd[y + 1]

Count(doc, w) == Cardinality({i \in 1..Len(doc) : doc[i] = w})
Words(doc) == {doc[i] : i \in 1..Len(doc)}
Vocabulary(corpus) == UNION {Words(corpus[i]) : i \in 1..Len(corpus)}

RECURSIVE SumOver(_, _)
SumOver(f, S) ==
    IF S = {} THEN 0
    ELSE f[CHOOSE y \in S : TRUE] + SumOver(f, S \ {CHOOSE y \in S : TRUE})

\* nd: the number of documents that contain the word
DocumentFrequency(corpus, w) ==
    Cardinality({i \in 1..Len(corpus) : w \in Words(corpus[i])})

\* math.log(corpus_size - freq + 0.5) - math.log(freq + 0.5)
RawIdf(corpus, w) ==
    LogRatio(Len(corpus) - DocumentFrequency(corpus, w), DocumentFrequency(corpus, w))

\* BM25Okapi._calc_idf: negative idf values are replaced by eps
FlooredIdf(raw, eps) == [w \in DOMAIN raw |-> IF raw[w] < 0 THEN eps ELSE raw[w]]

\* eps = epsilon * average_idf, average_idf = idf_sum / len(idf)
Epsilon(raw) == (EpsNum * (SumOver(raw, DOMAIN raw) \div Cardinality(DOMAIN raw))) \div EpsDen

CalcIdf(raw) == FlooredIdf(raw, Epsilon(raw))

BM25Failed(corpus) == Len(corpus) = 0 \/ Vocabulary(corpus) = {}

\* BM25.__init__ (_initialize, then BM25Okapi._calc_idf).  error is
\* "ZeroDivisionError" where the library divides by the number of documents
\* (avgdl) or by the number of distinct terms (average_idf) and that is 0.
BM25Okapi(corpus) ==
    [error       |-> IF BM25Failed(corpus) THEN "ZeroDivisionError" ELSE "",
     corpus_size |-> Len(corpus),
     num_doc     |-> SumOver([i \in 1..Len(corpus) |-> Len(corpus[i])], 1..Len(corpus)),
     doc_len     |-> [i \in 1..Len(corpus) |-> Len(corpus[i])],
     doc_freqs   |-> [i \in 1..Len(corpus) |->
                         [w \in Words(corpus[i]) |-> Count(corpus[i], w)]],
     idf         |-> IF BM25Failed(corpus) THEN <<>>
                     ELSE CalcIdf([w \in Vocabulary(corpus) |-> RawIdf(corpus, w)])]

\* idf * f * (k1 + 1) / (f + k1 * (1 - b + b * doc_len / avgdl)) with
\* avgdl = num_doc / corpus_size, for term frequency f
Weighted(bm, i, idf, f) ==
    (idf * f * (K1Num + K1Den) * BDen * bm.num_doc)
        \div (f * K1Den * BDen * bm.num_doc
                + K1Num * (BDen - BNum) * bm.num_doc
                + K1Num * BNum * bm.doc_len[i] * bm.corpus_size)

\* the share of query term q in document i's score
TermScore(bm, q, i) ==
    Weighted(bm, i,
             IF q \in DOMAIN bm.idf THEN bm.idf[q] ELSE 0,
             IF q \in DOMAIN bm.doc_freqs[i] THEN bm.doc_freqs[i][q] ELSE 0)

RECURSIVE DocScore(_, _, _)
DocScore(bm, query, i) ==
    IF query = <<>> THEN 0
    ELSE TermScore(bm, query[1], i) + DocScore(bm, Tail(query), i)

\* BM25Okapi.get_scores(query): one score per document
get_scores(bm, query) == [i \in 1..bm.corpus_size |-> DocScore(bm, query, i)]

(***************************************************************************)
(* RecipeIndexer                                                           *)
(***************************************************************************)
\* RecipeIndexer._build_index, lines 77-78: the tokens of a recipe's
\* ingredients
ingredient_tokens(syn, ingredients) ==
    tokenize_ingredients(syn, join(" ", ingredients))

\* the same with the title terms first
tokenized_corpus_titles_first(syn, loaded) ==
    [i \in 1..Len(loaded) |->
        extract_key_terms(syn, loaded[i].title)
            \o ingredient_tokens(syn, loaded[i].ingredients)]

\* RecipeIndexer._build_index, lines 73-85: the tokenized corpus
tokenized_corpus_of(syn, loaded) ==
    [i \in 1..Len(loaded) |->
        ingredient_tokens(syn, loaded[i].ingredients)
            \o extract_key_terms(syn, loaded[i].title)]

\* self.bm25 before _build_index has run
NoBM25 == [error |-> "None", corpus_size |-> 0, num_doc |-> 0, doc_len |-> <<>>,
           doc_freqs |-> <<>>, idf |-> <<>>]

RECURSIVE Flatten(_)
Flatten(lists) == IF lists = <<>> THEN <<>> ELSE lists[1] \o Flatten(Tail(lists))

RECURSIVE DedupeAcc(_, _)
DedupeAcc(seq, acc) ==
    IF seq = <<>> THEN acc
    ELSE DedupeAcc(Tail(seq), IF Contains(acc, seq[1]) THEN acc ELSE Append(acc, seq[1]))

SplitEach(items) == [i \in 1..Len(items) |-> split(items[i])]

\* search, lines 105-117: the query tokens, first occurrences in order
query_tokens_of(syn, ingredients) ==
    DedupeAcc(Flatten(SplitEach(normalize_list(syn, ingredients, TRUE))), <<>>)

\* the number of indices sorted before i: higher scores, and equal scores
\* at smaller indices
RankStable(scores, i) ==
    Cardinality({j \in DOMAIN scores :
                    scores[j] > scores[i] \/ (scores[j] = scores[i] /\ j < i)})

\* the same with equal scores in reverse index order
RankReversedTies(scores, i) ==
    Cardinality({j \in DOMAIN scores :
                    scores[j] > scores[i] \/ (scores[j] = scores[i] /\ j > i)})

sorted_reversed_ties(scores) ==
    [p \in 1..Len(scores) |-> CHOOSE i \in DOMAIN scores : RankReversedTies(scores, i) = p - 1]

\* sorted(range(len(scores)), key=lambda i: scores[i], reverse=True):
\* descending score; the sort is stable, so equal scores keep index order
sorted_reverse(scores) ==
    [p \in 1..Len(scores) |-> CHOOSE i \in DOMAIN scores : RankStable(scores, i) = p - 1]

Min(a, b) == IF a <= b THEN a ELSE b
Max(a, b) == IF a >= b THEN a ELSE b

\* the slice without its bound
slice_all(seq, k) == seq

\* seq[:k]: a negative k counts from the end
slice_to(seq, k) ==
    IF k >= 0 THEN SubSeq(seq, 1, Min(k, Len(seq)))
    ELSE SubSeq(seq, 1, Max(Len(seq) + k, 0))

\* Objects live in a heap, a sequence of Recipe records addressed by
\* position; self.recipes and the lists search returns hold addresses.

\* no copy: the object itself
model_copy_alias(h, a) == [heap |-> h, addr |-> a]

\* recipe.model_copy(): a new object with the same field values
model_copy(h, a) == [heap |-> Append(h, h[a]), addr |-> Len(h) + 1]

\* recipe.score = float(scores[idx])
SetScore(c, score) == [heap |-> [c.heap EXCEPT ![c.addr].score = Num(score)], addr |-> c.addr]

\* one turn of the loop that adds the score to the stored recipe's and
\* returns the stored recipe
collect_accumulating(h, stored, scores, idx) ==
    [heap |-> [h EXCEPT ![stored[idx]].score = Num(@.v + scores[idx])],
     addr |-> stored[idx]]

\* search, lines 133-137, one turn of the loop: copy the stored recipe at
\* idx and set the copy's score
collect(h, stored, scores, idx) ==
    SetScore(model_copy(h, stored[idx]), scores[idx])

\* search's local variables after line 129
Ranking(query_tokens, scores, k) ==
    [query_tokens |-> query_tokens, scores |-> scores,
     top_indices |-> slice_to(sorted_reverse(scores), k)]

\* return [] at line 122
NoQuery == [query_tokens |-> <<>>, scores |-> <<>>, top_indices |-> <<>>]

\* the same without the test for an empty query
SearchTokensUnguarded(bm, query_tokens, k) ==
    Ranking(query_tokens, get_scores(bm, query_tokens), k)

\* search, lines 120-129
SearchTokens(bm, query_tokens, k) ==
    IF query_tokens = <<>>
    THEN NoQuery
    ELSE Ranking(query_tokens, get_scores(bm, query_tokens), k)

\* RecipeIndexer.search(ingredients, k) up to its loop, lines 102-129; a
\* BM25Okapi object is never falsy
search(syn, bm, ingredients, k) ==
    IF bm = NoBM25 THEN NoQuery
    ELSE SearchTokens(bm, query_tokens_of(syn, ingredients), k)

FirstHit(h, stored, recipe_id) ==
    CHOOSE i \in 1..Len(stored) :
        /\ h[stored[i]].id = recipe_id
        /\ \A j \in 1..(i - 1) : h[stored[j]].id # recipe_id

\* the same looking at the first stored recipe only
get_recipe_by_id_first_only(h, stored, recipe_id) ==
    IF stored # <<>> /\ h[stored[1]].id = recipe_id
    THEN [found |-> TRUE, addr |-> stored[1]]
    ELSE [found |-> FALSE, addr |-> 0]

\* RecipeIndexer.get_recipe_by_id: the first stored recipe with that id
get_recipe_by_id(h, stored, recipe_id) ==
    IF \E i \in 1..Len(stored) : h[stored[i]].id = recipe_id
    THEN [found |-> TRUE, addr |-> stored[FirstHit(h, stored, recipe_id)]]
    ELSE [found |-> FALSE, addr |-> 0]

\* RecipeIndexer.get_recipe_count
get_recipe_count(stored) == Len(stored)

\* main.get_recipe, GET /recipes/{recipe_id}: r is what get_recipe_by_id
\* returned; a Recipe object is never falsy
get_recipe(h, r) ==
    IF ~r.found THEN [status |-> 404, found |-> FALSE, addr |-> 0]
    ELSE [status |-> 200, found |-> TRUE, addr |-> r.addr]

(***************************************************************************)
(* Inputs                                                                  *)
(***************************************************************************)
MaxRows == 3
MaxK == 3

Header == <<"id", "title", "ingredients", "instructions", "cuisine", "tags",
            "time_minutes">>
HeaderNoTags == <<"id", "title", "ingredients", "instructions", "cuisine",
                  "time_minutes">>

ChickenRice == <<"1", "Chicken Rice", "chicken breast, rice, soy sauce",
                 "Cook.", "asian", "dinner", "30">>
TomatoPasta == <<"2", "Tomato Pasta", "tomato, pasta, basil",
                 "Boil.", "italian", "dinner, quick", "">>
\* no time_minutes field
FriedRice   == <<" 3 ", "Fried Rice", "2 cups rice, eggs, green onions",
                 "Fry.", "asian", "quick">>
\* nothing but stopwords (a document without tokens); the time is no integer
Seasoning   == <<"6", "Salt", "water, salt", "Mix.", "any", "basic", "soon">>
\* the third line of the file again
Duplicate   == <<"2", "Tomato Pasta", "tomato, pasta, basil",
                 "Boil.", "italian", "lunch", "15">>
\* malformed: the id is no integer
BadId       == <<"x7", "Soup", "rice, water", "Boil.", "any", "soup", "10">>
\* malformed: the row ends after the ingredients
ShortRow    == <<"5", "Plain Rice", "rice">>

ValidRows == {ChickenRice, TomatoPasta, FriedRice}
MalformedRows == {BadId, ShortRow}

SeqsUpTo(S, n) == UNION {[1..m -> S] : m \in 0..n}

\* at most one malformed row among valid ones
RowLists ==
    {rs \in SeqsUpTo(ValidRows \cup MalformedRows, MaxRows) :
        Cardinality({i \in 1..Len(rs) : rs[i] \in MalformedRows}) <= 1}

Sources ==
    {[exists |-> TRUE, readable |-> TRUE, header |-> Header, rows |-> rs] : rs \in RowLists}
    \cup {[exists |-> TRUE, readable |-> TRUE, header |-> Header, rows |-> rs] :
             rs \in {<<Seasoning>>, <<ChickenRice, Seasoning>>,
                     <<TomatoPasta, ChickenRice, Duplicate>>}}
    \cup {[exists |-> TRUE, readable |-> TRUE, header |-> HeaderNoTags, rows |-> <<ChickenRice, TomatoPasta>>],
          [exists |-> TRUE, readable |-> TRUE, header |-> Header, rows |-> <<ChickenRice, <<>>, TomatoPasta>>],
          [exists |-> TRUE, readable |-> FALSE, header |-> <<>>, rows |-> <<>>],
          [exists |-> FALSE, readable |-> FALSE, header |-> <<>>, rows |-> <<>>]}

NoSynonyms == [w \in {} |-> ""]
ScallionSynonyms == [w \in {"scallion"} |-> "green onion"]
SynonymTables == {NoSynonyms, ScallionSynonyms}

\* the synonyms file: missing, holding {} or holding {"scallion": "green onion"}
MissingSynonyms == [exists |-> FALSE, table |-> NoSynonyms]
SynonymFiles ==
    {MissingSynonyms} \cup {[exists |-> TRUE, table |-> t] : t \in SynonymTables}

\* the file always holds the scallion table
load_synonyms_builtin(file) == ScallionSynonyms

\* TextNormalizer._load_synonyms: {} when the file is not found
load_synonyms(file) == IF file.exists THEN file.table ELSE NoSynonyms

Queries == { <<>>, <<"", "  ">>, <<"chicken", "rice">>, <<"salt", "Peppers">>,
             <<"Tomatoes">>, <<"scallion", "fresh eggs">> }
Ks == (0 - 1)..MaxK
LookupIds == {1, 3, 999}

(***************************************************************************)
(* State                                                                   *)
(***************************************************************************)
VARIABLES
    source,            \* the recipes file: exists, readable, header, rows
    synonyms_file,     \* the synonyms file: exists, table
    synonyms,          \* self.normalizer.synonyms
    pc,                \* "new", "ready" (constructed, idle), "returned" (a call
                       \* has returned to its caller), "searching" (search is
                       \* in its loop) or "failed" (__init__ raised)
    error,             \* the exception __init__ raised, "" if none
    skipped,           \* warnings "Skipping invalid recipe row" printed
    heap,              \* the Recipe objects
    recipes,           \* self.recipes: addresses of the stored recipes
    tokenized_corpus,  \* self.tokenized_corpus
    bm25,              \* self.bm25
    ret,               \* the call in progress or last returned: its
                       \* arguments, local variables and result
    peek,              \* what get_recipe_by_id returned to a second caller
                       \* while the search was running
    searched,          \* whether an earlier search has returned recipes
    memo,              \* the first search that returned, as its caller keeps it
    callers,           \* the callers of get_or_create_indexer: line and result
    main_indexer,      \* main.indexer: 0 for None, else the number of the build
    indexer_instance,  \* indexer._indexer_instance, likewise
    builds             \* RecipeIndexer objects constructed so far

\* the globals of the callers of get_or_create_indexer
once == <<callers, main_indexer, indexer_instance, builds>>

aside == <<memo, once>>

vars == <<source, synonyms_file, synonyms, pc, error, skipped, heap, recipes,
          tokenized_corpus, bm25, ret, peek, searched, memo, callers,
          main_indexer, indexer_instance, builds>>

index == <<source, synonyms_file, synonyms, error, skipped, recipes,
           tokenized_corpus, bm25>>

\* no caller of get_or_create_indexer is followed, nothing is kept
AsideInit ==
    /\ memo = [op |-> "none"]
    /\ callers = <<>>
    /\ main_indexer = 0
    /\ indexer_instance = 0
    /\ builds = 0

Init ==
    /\ source \in Sources
    /\ synonyms_file \in {MissingSynonyms, [exists |-> TRUE, table |-> ScallionSynonyms]}
    /\ synonyms = load_synonyms(synonyms_file)
    /\ AsideInit
    /\ pc = "new"
    /\ error = ""
    /\ skipped = 0
    /\ heap = <<>>
    /\ recipes = <<>>
    /\ tokenized_corpus = <<>>
    /\ bm25 = NoBM25
    /\ ret = [op |-> "none"]
    /\ peek = [op |-> "none"]
    /\ searched = FALSE

\* RecipeIndexer._build_index on the loaded recipes
build_index(syn, ld) ==
    [load   |-> ld,
     corpus |-> tokenized_corpus_of(syn, ld.recipes),
     bm     |-> IF ld.error # "" THEN NoBM25
                ELSE BM25Okapi(tokenized_corpus_of(syn, ld.recipes))]

\* RecipeIndexer.__init__, lines 21-29: the new object's state, and the
\* exception (ld.error from _load_recipes, bm.error from _build_index)
RecipeIndexer(src, syn) == build_index(syn, load_recipes(src))

Built(ix) == ix.load.error = "" /\ ix.bm.error = ""

\* get_indexer, lines 165-170: the new indexer becomes the global one; an
\* exception in __init__ leaves none
Install(ix) ==
    /\ skipped' = ix.load.skipped
    /\ error' = (IF ix.load.error # "" THEN ix.load.error ELSE ix.bm.error)
    /\ IF Built(ix)
       THEN /\ heap' = ix.load.recipes
            /\ recipes' = [i \in 1..Len(ix.load.recipes) |-> i]
            /\ tokenized_corpus' = ix.corpus
            /\ bm25' = ix.bm
       ELSE UNCHANGED <<heap, recipes, tokenized_corpus, bm25>>

ConstructWith(ix) ==
    /\ Install(ix)
    /\ pc' = (IF Built(ix) THEN "ready" ELSE "failed")

\* main.startup_event: get_or_create_indexer()
Construct ==
    /\ pc = "new"
    /\ ConstructWith(RecipeIndexer(source, synonyms))
    /\ ret' = [op |-> "construct"]
    /\ UNCHANGED <<source, synonyms_file, synonyms, peek, searched, aside>>

\* the objects self.recipes holds
Stored == SubSeq(heap, 1, Len(recipes))

SearchWith(ingredients, k, r) ==
    /\ ret' = [op |-> "search", ingredients |-> ingredients, k |-> k,
               query_tokens |-> r.query_tokens, scores |-> r.scores,
               top_indices |-> r.top_indices, results |-> <<>>]
    /\ pc' = (IF r.top_indices = <<>> THEN "returned" ELSE "searching")

\* search, lines 105-131: the query tokens, the scores and the indices to
\* return; with nothing to return, the call returns []
Search ==
    /\ pc = "ready"
    /\ \E ingredients \in Queries, k \in Ks :
           SearchWith(ingredients, k, search(synonyms, bm25, ingredients, k))
    /\ UNCHANGED <<index, heap, peek, searched, aside>>

CollectWith(c) ==
    /\ heap' = c.heap
    /\ ret' = [ret EXCEPT !.results = Append(@, c.addr)]

\* search, lines 132-141: one turn of the loop, and the return after the
\* last one
SearchStep ==
    /\ pc = "searching"
    /\ CollectWith(collect(heap, recipes, ret.scores,
                           ret.top_indices[Len(ret.results) + 1]))
    /\ pc' = (IF Len(ret.results) + 1 = Len(ret.top_indices)
              THEN "returned" ELSE "searching")
    /\ UNCHANGED <<index, peek, searched, aside>>

PeekWith(recipe_id, r) ==
    peek' = [op |-> "get_recipe_by_id", recipe_id |-> recipe_id,
             found |-> r.found, addr |-> r.addr]

\* get_recipe_by_id called by a second caller between two turns of the
\* loop of a running search
GetDuringSearch ==
    /\ pc = "searching"
    /\ \E recipe_id \in LookupIds :
           PeekWith(recipe_id, get_recipe_by_id(heap, recipes, recipe_id))
    /\ UNCHANGED <<index, pc, heap, ret, searched, aside>>

GetWith(recipe_id, r) ==
    ret' = [op |-> "get_recipe_by_id", recipe_id |-> recipe_id,
            found |-> r.found, addr |-> r.addr]

GetRecipeById ==
    /\ pc = "ready"
    /\ \E recipe_id \in LookupIds :
           GetWith(recipe_id, get_recipe_by_id(heap, recipes, recipe_id))
    /\ pc' = "returned"
    /\ UNCHANGED <<index, heap, peek, searched, aside>>

HttpWith(recipe_id, r) ==
    ret' = [op |-> "GET /recipes/{recipe_id}", recipe_id |-> recipe_id,
            status |-> r.status, found |-> r.found, addr |-> r.addr]

\* main.get_recipe with an indexer
HttpGetRecipeBuilt ==
    /\ pc = "ready"
    /\ \E recipe_id \in LookupIds :
           HttpWith(recipe_id,
                    get_recipe(heap, get_recipe_by_id(heap, recipes, recipe_id)))
    /\ pc' = "returned"
    /\ UNCHANGED <<index, heap, peek, searched, aside>>

\* the answer of the handler that had to build the indexer: 500 when
\* get_or_create_indexer raised
HttpFirst(ix, recipe_id) ==
    IF Built(ix)
    THEN /\ HttpWith(recipe_id,
                     get_recipe(ix.load.recipes,
                                get_recipe_by_id(ix.load.recipes,
                                    [i \in 1..Len(ix.load.recipes) |-> i],
                                    recipe_id)))
         /\ pc' = "returned"
    ELSE /\ HttpWith(recipe_id, [status |-> 500, found |-> FALSE, addr |-> 0])
         /\ pc' = "failed"

HttpBuildWith(ix) ==
    /\ Install(ix)
    /\ \E recipe_id \in LookupIds : HttpFirst(ix, recipe_id)

\* main.get_recipe without an indexer: get_or_create_indexer builds one
HttpGetRecipeBuilding ==
    /\ pc \in {"new", "failed"}
    /\ HttpBuildWith(RecipeIndexer(source, synonyms))
    /\ UNCHANGED <<source, synonyms_file, synonyms, peek, searched, aside>>

\* main.get_recipe, GET /recipes/{recipe_id}
HttpGetRecipe == HttpGetRecipeBuilt \/ HttpGetRecipeBuilding

GetRecipeCount ==
    /\ pc = "ready"
    /\ ret' = [op |-> "get_recipe_count", count |-> get_recipe_count(recipes)]
    /\ pc' = "returned"
    /\ UNCHANGED <<index, heap, peek, searched, aside>>

\* The caller has taken what the call returned; the copies search made for
\* it are no longer referenced by the indexer.
Return ==
    /\ pc = "returned"
    /\ pc' = "ready"
    /\ heap' = Stored
    /\ ret' = [op |-> "none"]
    /\ peek' = [op |-> "none"]
    /\ searched' = (searched \/ (ret.op = "search" /\ ret.results # <<>>))
    /\ UNCHANGED <<index, aside>>

Next ==
    \/ Construct
    \/ Search
    \/ SearchStep
    \/ GetDuringSearch
    \/ GetRecipeById
    \/ HttpGetRecipe
    \/ GetRecipeCount
    \/ Return

Spec == Init /\ [][Next]_vars

(***************************************************************************)
(* The normalizer on its own: calls of TextNormalizer.normalize and of the *)
(* two paths that turn an ingredient phrase into tokens                    *)
(***************************************************************************)
MaxPieces == 2

Pieces == { "fresh ", "2 cups ", "scallion", "Tomatoes", "chicken breast",
            "green onions", "!", " " }

RECURSIVE Concat(_)
Concat(ps) == IF ps = <<>> THEN "" ELSE ps[1] \o Concat(Tail(ps))

Texts == {Concat(ps) : ps \in SeqsUpTo(Pieces, MaxPieces)}

\* no recipes file is read, no indexer is built
NormInit ==
    /\ source = [exists |-> FALSE, readable |-> FALSE, header |-> <<>>, rows |-> <<>>]
    /\ synonyms_file \in SynonymFiles
    /\ synonyms = load_synonyms(synonyms_file)
    /\ AsideInit
    /\ pc = "ready"
    /\ error = ""
    /\ skipped = 0
    /\ heap = <<>>
    /\ recipes = <<>>
    /\ tokenized_corpus = <<>>
    /\ bm25 = NoBM25
    /\ ret = [op |-> "none"]
    /\ peek = [op |-> "none"]
    /\ searched = FALSE

\* normalize(text, remove_stopwords)
Normalize ==
    /\ pc = "ready"
    /\ \E text \in Texts, remove_stopwords \in BOOLEAN :
           ret' = [op |-> "normalize", text |-> text,
                   remove_stopwords |-> remove_stopwords,
                   out |-> normalize(synonyms, text, remove_stopwords)]
    /\ pc' = "returned"
    /\ UNCHANGED <<index, heap, peek, searched, aside>>

\* normalize called on what normalize returned, with the same flag
NormalizeAgain ==
    /\ pc = "returned"
    /\ ret.op = "normalize"
    /\ ret' = [op |-> "normalize again", text |-> ret.text,
               remove_stopwords |-> ret.remove_stopwords, first |-> ret.out,
               out |-> normalize(synonyms, ret.out, ret.remove_stopwords)]
    /\ UNCHANGED <<index, pc, heap, peek, searched, aside>>

\* the query tokens search computes for the one-phrase list [phrase]
QueryPath ==
    /\ pc = "ready"
    /\ \E phrase \in Texts :
           ret' = [op |-> "query path", phrase |-> phrase,
                   query_tokens |-> query_tokens_of(synonyms, <<phrase>>)]
    /\ pc' = "returned"
    /\ UNCHANGED <<index, heap, peek, searched, aside>>

\* the ingredient tokens _build_index computes for a recipe loaded from a
\* row whose ingredients column holds the phrase
IndexPath ==
    /\ pc = "returned"
    /\ ret.op = "query path"
    /\ ret' = [op |-> "index path", phrase |-> ret.phrase,
               query_tokens |-> ret.query_tokens,
               index_tokens |-> ingredient_tokens(synonyms, SplitTrim(ret.phrase))]
    /\ UNCHANGED <<index, pc, heap, peek, searched, aside>>

\* tokenize_ingredients(text), and the query tokens of a search for [text]
Tokenize ==
    /\ pc = "ready"
    /\ \E text \in Texts :
           ret' = [op |-> "tokenize", text |-> text,
                   tokens |-> tokenize_ingredients(synonyms, text),
                   query_tokens |-> query_tokens_of(synonyms, <<text>>)]
    /\ pc' = "returned"
    /\ UNCHANGED <<index, heap, peek, searched, aside>>

\* the same two calls on the canonical form the synonym table gives for
\* the text
TokenizeCanonical ==
    /\ pc = "returned"
    /\ ret.op = "tokenize"
    /\ ret.text \in DOMAIN synonyms
    /\ ret' = [op |-> "tokenize canonical", text |-> ret.text,
               canonical |-> synonyms[ret.text],
               tokens |-> ret.tokens, query_tokens |-> ret.query_tokens,
               canonical_tokens |-> tokenize_ingredients(synonyms, synonyms[ret.text]),
               canonical_query_tokens
                   |-> query_tokens_of(synonyms, <<synonyms[ret.text]>>)]
    /\ UNCHANGED <<index, pc, heap, peek, searched, aside>>

Quantities == {"2", "1.5", "1/2"}
IngredientWords == {"garlic", "large", "lemon", "rice", "cups"}

\* tokenize_ingredients on a quantity followed by a word, and on the word
\* alone
TokenizeQuantity ==
    /\ pc = "ready"
    /\ \E quantity \in Quantities, word \in IngredientWords :
           ret' = [op |-> "tokenize quantity", quantity |-> quantity, word |-> word,
                   tokens |-> tokenize_ingredients(synonyms, quantity \o " " \o word),
                   word_tokens |-> tokenize_ingredients(synonyms, word)]
    /\ pc' = "returned"
    /\ UNCHANGED <<index, heap, peek, searched, aside>>

NormNext ==
    \/ Normalize
    \/ NormalizeAgain
    \/ QueryPath
    \/ IndexPath
    \/ Tokenize
    \/ TokenizeCanonical
    \/ TokenizeQuantity
    \/ Return

SpecNorm == NormInit /\ [][NormNext]_vars

(***************************************************************************)
(* Repeated searches: the caller of the first search that returns keeps    *)
(* the list it got                                                         *)
(***************************************************************************)
MaxDetRows == 1

DetSources ==
    {[exists |-> TRUE, readable |-> TRUE, header |-> Header, rows |-> rs] :
        rs \in SeqsUpTo(ValidRows, MaxDetRows)
                \cup {<<TomatoPasta, ChickenRice, Duplicate>>}}

DetInit ==
    /\ source \in DetSources
    /\ synonyms_file \in {MissingSynonyms, [exists |-> TRUE, table |-> ScallionSynonyms]}
    /\ synonyms = load_synonyms(synonyms_file)
    /\ AsideInit
    /\ pc = "new"
    /\ error = ""
    /\ skipped = 0
    /\ heap = <<>>
    /\ recipes = <<>>
    /\ tokenized_corpus = <<>>
    /\ bm25 = NoBM25
    /\ ret = [op |-> "none"]
    /\ peek = [op |-> "none"]
    /\ searched = FALSE

\* the list a search returned: the recipes with their scores
Returned == [p \in 1..Len(ret.results) |-> heap[ret.results[p]]]

\* what the caller of the first search keeps, and whether another call has
\* returned since
Kept ==
    IF memo.op = "none"
    THEN IF ret.op = "search"
         THEN [op |-> "search", ingredients |-> ret.ingredients, k |-> ret.k,
               recipes |-> Returned, between |-> FALSE]
         ELSE memo
    ELSE [memo EXCEPT !.between = TRUE]

\* The caller has taken what the call returned.
ReturnKeeping ==
    /\ pc = "returned"
    /\ pc' = "ready"
    /\ heap' = Stored
    /\ ret' = [op |-> "none"]
    /\ peek' = [op |-> "none"]
    /\ searched' = (searched \/ (ret.op = "search" /\ ret.results # <<>>))
    /\ memo' = Kept
    /\ UNCHANGED <<index, once>>

DetNext ==
    \/ Construct
    \/ Search
    \/ SearchStep
    \/ GetRecipeById
    \/ GetRecipeCount
    \/ ReturnKeeping

SpecDet == DetInit /\ [][DetNext]_vars

(***************************************************************************)
(* The recipe endpoints: GET /recipes and POST /suggest, with the external *)
(* generator tried first and the local search as the fallback              *)
(***************************************************************************)
MaxGenerated == 2

\* main.py lines 208 and 251: r.score >= 0.5
MinScore == 500000
\* openai_generator.py line 118: score=1.0
GeneratedScore == 1000000
\* openai_generator.py line 111: id=1000 + idx
GeneratedIdBase == 1000
\* schemas.py line 32: min_length=1
MinIngredients == 1
\* schemas.py line 33: ge=1, le=100
MaxResultsGe == 1
MaxResultsLe == 100

\* What the outside world gives the generator: no API key; a key and a call
\* that fails or whose content cannot be used; a key and a list of recipe
\* data, each item usable (TRUE) or not.
GeneratorOutcomes ==
    {[key |-> FALSE, kind |-> "none", items |-> <<>>],
     [key |-> TRUE, kind |-> "error", items |-> <<>>]}
    \cup {[key |-> TRUE, kind |-> "recipes", items |-> items] :
             items \in SeqsUpTo(BOOLEAN, MaxGenerated)}

\* generate_recipes, lines 110-119
GeneratedRecipe(idx, ingredients) ==
    [id           |-> GeneratedIdBase + idx,
     title        |-> "Untitled Recipe",
     ingredients  |-> ingredients,
     instructions |-> "",
     cuisine      |-> "International",
     tags         |-> <<>>,
     time_minutes |-> NoTime,
     score        |-> Num(GeneratedScore)]

Candidates(items, ingredients) ==
    [i \in 1..Len(items) |->
        [valid |-> items[i], recipe |-> GeneratedRecipe(i - 1, ingredients)]]

RecipesOf(cands) == [i \in 1..Len(cands) |-> cands[i].recipe]

\* generate_recipes, lines 106-125: one recipe per usable item of
\* recipes_data[:max_recipes]
Converted(items, ingredients) ==
    RecipesOf(SelectSeq(Candidates(items, ingredients), LAMBDA c : c.valid))

\* OpenAIRecipeGenerator.generate_recipes
generate_recipes(gen, ingredients, max_recipes) ==
    IF ingredients = <<>> \/ gen.kind # "recipes" THEN <<>>
    ELSE Converted(slice_to(gen.items, max_recipes), ingredients)

\* main.py lines 185-198: the generator's recipes, [] without a generator
from_generator(gen, ingredients, max_recipes) ==
    IF gen.key THEN generate_recipes(gen, ingredients, max_recipes) ELSE <<>>

RECURSIVE SearchAll(_, _, _, _, _)
SearchAllWith(c, stored, scores, rest, results) ==
    SearchAll(c.heap, stored, scores, rest, Append(results, c.heap[c.addr]))

\* search, lines 132-141: the loop, and the recipes of the list returned
SearchAll(h, stored, scores, rest, results) ==
    IF rest = <<>> THEN results
    ELSE SearchAllWith(collect(h, stored, scores, rest[1]), stored, scores,
                       Tail(rest), results)

SearchAllOf(h, stored, r) == SearchAll(h, stored, r.scores, r.top_indices, <<>>)

\* idx.search(ingredients, k), whole
search_results(syn, h, stored, bm, ingredients, k) ==
    SearchAllOf(h, stored, search(syn, bm, ingredients, k))

\* main.py lines 208 and 251
good_matches(found) == SelectSeq(found, LAMBDA r : r.score.v >= MinScore)

Response(status, found, generator, local) ==
    [status |-> status, recipes |-> found, total_results |-> Len(found),
     generator |-> generator, local |-> local]

\* a handler that searched locally whatever the generator gave
WithFallbackAlways(generated, syn, h, stored, bm, ingredients, k, key) ==
    Response(200, good_matches(search_results(syn, h, stored, bm, ingredients, k)),
             key, TRUE)

\* main.py lines 200-219 and 245-257
WithFallback(generated, syn, h, stored, bm, ingredients, k, key) ==
    IF generated # <<>>
    THEN Response(200, generated, key, FALSE)
    ELSE Response(200, good_matches(search_results(syn, h, stored, bm, ingredients, k)),
                  key, TRUE)

\* main.py lines 184-219 and 236-257
recipes_for(gen, syn, h, stored, bm, ingredients, k) ==
    WithFallback(from_generator(gen, ingredients, k), syn, h, stored, bm,
                 ingredients, k, gen.key)

\* main.py line 179
parse_ingredients(s) == SelectSeq(SplitTrim(s), LAMBDA ing : ing # "")

SearchRecipesWith(gen, syn, h, stored, bm, ingredients, limit) ==
    IF ingredients = <<>>
    THEN Response(400, <<>>, FALSE, FALSE)
    ELSE recipes_for(gen, syn, h, stored, bm, ingredients, limit)

\* main.search_recipes, GET /recipes?s=...&limit=...
search_recipes(gen, syn, h, stored, bm, s, limit) ==
    SearchRecipesWith(gen, syn, h, stored, bm, parse_ingredients(s), limit)

\* schemas.RecipeSearchRequest: what the request body must satisfy
ValidRequest(ingredients, max_results) ==
    /\ Len(ingredients) >= MinIngredients
    /\ max_results >= MaxResultsGe
    /\ max_results <= MaxResultsLe

\* main.suggest_recipes, POST /suggest: a body that fails validation is
\* answered 422 before the handler runs
suggest_recipes(gen, syn, h, stored, bm, ingredients, max_results) ==
    IF ~ValidRequest(ingredients, max_results)
    THEN Response(422, <<>>, FALSE, FALSE)
    ELSE IF ingredients = <<>>
    THEN Response(400, <<>>, FALSE, FALSE)
    ELSE recipes_for(gen, syn, h, stored, bm, ingredients, max_results)

SParams == {"", " , ", "chicken,rice", " Tomatoes ,", "salt"}
Bodies == { <<>>, <<"chicken", "rice">>, <<"", "  ">> }
MaxResultsValues == {0, 1, MaxK, MaxResultsLe + 1}

ApiSources ==
    {[exists |-> TRUE, readable |-> TRUE, header |-> Header, rows |-> rs] :
        rs \in {<<ChickenRice>>, <<ChickenRice, TomatoPasta>>,
                <<ChickenRice, TomatoPasta, FriedRice>>}}

ApiInit ==
    /\ source \in ApiSources
    /\ synonyms_file \in {MissingSynonyms, [exists |-> TRUE, table |-> ScallionSynonyms]}
    /\ synonyms = load_synonyms(synonyms_file)
    /\ AsideInit
    /\ pc = "new"
    /\ error = ""
    /\ skipped = 0
    /\ heap = <<>>
    /\ recipes = <<>>
    /\ tokenized_corpus = <<>>
    /\ bm25 = NoBM25
    /\ ret = [op |-> "none"]
    /\ peek = [op |-> "none"]
    /\ searched = FALSE

AnswerWith(op, query, limit, gen, r) ==
    ret' = [op |-> op, query |-> query, limit |-> limit, gen |-> gen,
            status |-> r.status, recipes |-> r.recipes,
            total_results |-> r.total_results, generator |-> r.generator,
            local |-> r.local]

\* GET /recipes on the indexer the startup event built
HttpSearchRecipes ==
    /\ pc = "ready"
    /\ \E s \in SParams, limit \in Ks, gen \in GeneratorOutcomes :
           AnswerWith("GET /recipes", s, limit, gen,
                      search_recipes(gen, synonyms, heap, recipes, bm25, s, limit))
    /\ pc' = "returned"
    /\ UNCHANGED <<index, heap, peek, searched, aside>>

\* POST /suggest on the indexer the startup event built
HttpSuggestRecipes ==
    /\ pc = "ready"
    /\ \E ingredients \in Bodies, max_results \in MaxResultsValues,
          gen \in GeneratorOutcomes :
           AnswerWith("POST /suggest", ingredients, max_results, gen,
                      suggest_recipes(gen, synonyms, heap, recipes, bm25,
                                      ingredients, max_results))
    /\ pc' = "returned"
    /\ UNCHANGED <<index, heap, peek, searched, aside>>

ApiNext ==
    \/ Construct
    \/ HttpSearchRecipes
    \/ HttpSuggestRecipes
    \/ Return

SpecApi == ApiInit /\ [][ApiNext]_vars

(***************************************************************************)
(* The singleton: concurrent callers of get_indexer and                    *)
(* get_or_create_indexer, one step per line of the two functions           *)
(***************************************************************************)
MaxCallers == 2

Functions == {"get_indexer", "get_or_create_indexer"}

\* a caller about to execute the first line of the function it calls
Entering(fn) ==
    [fn  |-> fn,
     at  |-> (IF fn = "get_indexer" THEN "indexer168" ELSE "main66"),
     got |-> 0]

OnceSources ==
    {[exists |-> TRUE, readable |-> TRUE, header |-> Header, rows |-> <<ChickenRice, TomatoPasta>>],
     [exists |-> FALSE, readable |-> FALSE, header |-> <<>>, rows |-> <<>>]}

\* no instance exists: _indexer_instance and indexer are None (0)
OnceInit ==
    /\ source \in OnceSources
    /\ synonyms_file = MissingSynonyms
    /\ synonyms = load_synonyms(synonyms_file)
    /\ memo = [op |-> "none"]
    /\ callers \in {[i \in 1..MaxCallers |-> Entering(fns[i])] :
                       fns \in [1..MaxCallers -> Functions]}
    /\ main_indexer = 0
    /\ indexer_instance = 0
    /\ builds = 0
    /\ pc = "new"
    /\ error = ""
    /\ skipped = 0
    /\ heap = <<>>
    /\ recipes = <<>>
    /\ tokenized_corpus = <<>>
    /\ bm25 = NoBM25
    /\ ret = [op |-> "none"]
    /\ peek = [op |-> "none"]
    /\ searched = FALSE

Goto(i, at) == callers' = [callers EXCEPT ![i].at = at]

Receive(i, at, obj) == callers' = [callers EXCEPT ![i].at = at, ![i].got = obj]

\* main.py line 66: if indexer is None
CheckIndexer ==
    /\ \E i \in DOMAIN callers :
           /\ callers[i].at = "main66"
           /\ Goto(i, IF main_indexer = 0 THEN "indexer168" ELSE "main68")
    /\ UNCHANGED <<index, pc, heap, ret, peek, searched, memo, main_indexer,
                   indexer_instance, builds>>

\* indexer.py line 168: if _indexer_instance is None
CheckInstance ==
    /\ \E i \in DOMAIN callers :
           /\ callers[i].at = "indexer168"
           /\ Goto(i, IF indexer_instance = 0 THEN "indexer169" ELSE "indexer170")
    /\ UNCHANGED <<index, pc, heap, ret, peek, searched, memo, main_indexer,
                   indexer_instance, builds>>

BuildWith(i, ix) ==
    /\ ConstructWith(ix)
    /\ IF Built(ix)
       THEN /\ builds' = builds + 1
            /\ indexer_instance' = builds + 1
            /\ Goto(i, "indexer170")
       ELSE /\ Goto(i, "raised")
            /\ UNCHANGED <<builds, indexer_instance>>

\* indexer.py line 169: _indexer_instance = RecipeIndexer(...); each object
\* built is numbered, and an exception in __init__ ends the call
BuildInstance ==
    /\ \E i \in DOMAIN callers :
           /\ callers[i].at = "indexer169"
           /\ BuildWith(i, RecipeIndexer(source, synonyms))
    /\ UNCHANGED <<source, synonyms_file, synonyms, ret, peek, searched, memo,
                   main_indexer>>

\* indexer.py line 170: return _indexer_instance
ReturnInstance ==
    /\ \E i \in DOMAIN callers :
           /\ callers[i].at = "indexer170"
           /\ Receive(i, IF callers[i].fn = "get_indexer" THEN "done" ELSE "main67",
                      indexer_instance)
    /\ UNCHANGED <<index, pc, heap, ret, peek, searched, memo, main_indexer,
                   indexer_instance, builds>>

\* main.py line 67: indexer = get_indexer(...)
AssignIndexer ==
    /\ \E i \in DOMAIN callers :
           /\ callers[i].at = "main67"
           /\ main_indexer' = callers[i].got
           /\ Goto(i, "main68")
    /\ UNCHANGED <<index, pc, heap, ret, peek, searched, memo,
                   indexer_instance, builds>>

\* main.py line 68: return indexer
ReturnIndexer ==
    /\ \E i \in DOMAIN callers :
           /\ callers[i].at = "main68"
           /\ Receive(i, "done", main_indexer)
    /\ UNCHANGED <<index, pc, heap, ret, peek, searched, memo, main_indexer,
                   indexer_instance, builds>>

OnceNext ==
    \/ CheckIndexer
    \/ CheckInstance
    \/ BuildInstance
    \/ ReturnInstance
    \/ AssignIndexer
    \/ ReturnIndexer

SpecOnce == OnceInit /\ [][OnceNext]_vars

(***************************************************************************)
(* Properties                                                              *)
(***************************************************************************)
Range(seq) == {seq[i] : i \in 1..Len(seq)}

\* the score on the p-th recipe of the list the search has built so far
ResultScore(p) == heap[ret.results[p]].score.v

\* the documents that share a token with the query of the search
OverlapDocs ==
    {i \in 1..Len(tokenized_corpus) :
        Range(tokenized_corpus[i]) \cap Range(ret.query_tokens) # {}}

\* the stored recipes with the id a lookup asked for
WithId(recipe_id) == {i \in 1..Len(recipes) : heap[recipes[i]].id = recipe_id}

\* C1: the list search returns is ordered by non-increasing score, and any
\* two returned recipes with equal scores are in the order of their positions
\* in the loaded corpus. Each returned recipe is the stored recipe at its
\* corpus position with that position's score.
SearchOrdered ==
    ret.op = "search" =>
        /\ \A p \in 1..Len(ret.results) :
              /\ heap[ret.results[p]].score = Num(ret.scores[ret.top_indices[p]])
              /\ [heap[ret.results[p]] EXCEPT !.score = NoScore]
                     = [heap[recipes[ret.top_indices[p]]] EXCEPT !.score = NoScore]
        /\ \A p, q \in 1..Len(ret.results) :
              p < q =>
                  /\ ResultScore(p) >= ResultScore(q)
                  /\ ResultScore(p) = ResultScore(q)
                         => ret.top_indices[p] < ret.top_indices[q]

\* a search has returned three recipes, two of them with equal scores and
\* two with different scores
SearchOrderedWitness ==
    /\ pc = "returned"
    /\ ret.op = "search"
    /\ Len(ret.results) >= 3
    /\ \E p, q \in 1..Len(ret.results) : p < q /\ ResultScore(p) = ResultScore(q)
    /\ \E p, q \in 1..Len(ret.results) : p < q /\ ResultScore(p) > ResultScore(q)

\* C2: for k >= 0 search returns at most k recipes, and when the query shares
\* a token with at least k documents it returns exactly min(k, number of
\* loaded recipes) recipes.
TopKBound ==
    (pc = "returned" /\ ret.op = "search" /\ ret.k >= 0) =>
        /\ Len(ret.results) <= ret.k
        /\ Cardinality(OverlapDocs) >= ret.k
               => Len(ret.results) = Min(ret.k, Len(recipes))

\* a search with k >= 1 whose query shares a token with at least k documents
\* has returned k of the more than k loaded recipes
TopKBoundWitness ==
    /\ pc = "returned"
    /\ ret.op = "search"
    /\ ret.k >= 1
    /\ Cardinality(OverlapDocs) >= ret.k
    /\ Len(ret.results) = ret.k
    /\ Len(recipes) > ret.k

\* C3: search called with an empty ingredient list, or with a list whose
\* every item normalizes (with stopword removal) to the empty string, returns
\* an empty list, whatever k and the corpus are.
EmptyQueryEmptyResult ==
    (/\ ret.op = "search"
     /\ \A i \in 1..Len(ret.ingredients) :
            normalize(synonyms, ret.ingredients[i], TRUE) = "")
        => (pc = "returned" /\ ret.results = <<>>)

\* a search for a non-empty list of items that all normalize to the empty
\* string, not all of them blank, has returned the empty list from a
\* non-empty corpus with k >= 1
EmptyQueryEmptyResultWitness ==
    /\ pc = "returned"
    /\ ret.op = "search"
    /\ ret.k >= 1
    /\ Len(recipes) >= 1
    /\ \E i \in 1..Len(ret.ingredients) : strip(ret.ingredients[i]) # ""
    /\ \A i \in 1..Len(ret.ingredients) :
           normalize(synonyms, ret.ingredients[i], TRUE) = ""
    /\ ret.results = <<>>

\* C4: normalize is idempotent: normalize(normalize(x, r), r) equals
\* normalize(x, r) for every text x, synonym table and flag r.
NormalizeIdempotent ==
    ret.op = "normalize again" => ret.out = ret.first

\* C5: for every raw ingredient phrase the set of tokens of the query path
\* equals the set of ingredient tokens of the indexing path for a recipe
\* containing that phrase.
QueryIndexSymmetry ==
    ret.op = "index path" => Range(ret.query_tokens) = Range(ret.index_tokens)

\* C6: on the corpus of Chicken Rice (recipe 1) and Tomato Pasta (recipe 2),
\* search(['chicken', 'rice'], k) with room for both (k >= 2) returns recipe 1
\* before recipe 2 with a strictly greater score.
ChickenRiceAbovePasta ==
    (/\ pc = "returned"
     /\ ret.op = "search"
     /\ source = [exists |-> TRUE, readable |-> TRUE, header |-> Header,
                  rows |-> <<ChickenRice, TomatoPasta>>]
     /\ ret.ingredients = <<"chicken", "rice">>
     /\ ret.k >= 2)
        => \E p, q \in 1..Len(ret.results) :
              /\ p < q
              /\ heap[ret.results[p]].id = 1
              /\ heap[ret.results[q]].id = 2
              /\ ResultScore(p) > ResultScore(q)

\* C7: every score on a recipe returned by search is non-negative, and a
\* document that shares no token with the query has score exactly 0.
ScoresNonNegative ==
    ret.op = "search" =>
        /\ \A p \in 1..Len(ret.results) : ResultScore(p) >= 0
        /\ \A i \in 1..Len(ret.scores) : i \notin OverlapDocs => ret.scores[i] = 0

\* the stored recipes have no score, a recipe get_recipe_by_id returned has
\* none, and the recipes a search returns are scored copies
ScoresOnCopiesOnly ==
    /\ \A i \in 1..Len(recipes) : heap[recipes[i]].score = NoScore
    /\ (ret.op = "get_recipe_by_id" /\ ret.found)
           => heap[ret.addr].score = NoScore
    /\ (peek.op = "get_recipe_by_id" /\ peek.found)
           => heap[peek.addr].score = NoScore
    /\ ret.op = "search" =>
           \A p \in 1..Len(ret.results) :
               /\ ret.results[p] \notin Range(recipes)
               /\ heap[ret.results[p]].score.kind = "num"

\* no step of a call on a built index changes the stored recipes, the
\* tokenized corpus or the recipe count
IndexKept ==
    pc # "new" =>
        /\ Stored' = Stored
        /\ recipes' = recipes
        /\ tokenized_corpus' = tokenized_corpus
        /\ get_recipe_count(recipes') = get_recipe_count(recipes)

\* C8: stored recipes never carry a score: after any sequence of search and
\* get_recipe_by_id calls on a built index, also between two turns of the
\* loop of a running search, every stored recipe (and so every recipe
\* get_recipe_by_id returns) has score absent, every step leaves the other
\* fields, the tokenized corpus and the recipe count unchanged, and the
\* scores are on the copies search returns only.
StoredNeverScored == [](ScoresOnCopiesOnly) /\ [][IndexKept]_vars

\* while an earlier search has returned and another one is in its loop, with
\* a scored copy of a recipe made, get_recipe_by_id has returned that recipe
\* to a second caller
StoredNeverScoredWitness ==
    /\ searched
    /\ pc = "searching"
    /\ Len(ret.results) >= 1
    /\ peek.op = "get_recipe_by_id"
    /\ peek.found
    /\ heap[ret.results[1]].id = peek.recipe_id
    /\ heap[ret.results[1]].score.kind = "num"

\* C9: get_recipe_by_id returns a stored recipe with the requested id when
\* the corpus has one and None when it has none; GET /recipes/{recipe_id}
\* on a built index answers 200 with that id or 404.
LookupById ==
    /\ ret.op = "get_recipe_by_id" =>
           IF WithId(ret.recipe_id) # {}
           THEN /\ ret.found
                /\ ret.addr \in Range(recipes)
                /\ heap[ret.addr].id = ret.recipe_id
           ELSE ~ret.found
    /\ (ret.op = "GET /recipes/{recipe_id}" /\ pc # "failed") =>
           IF WithId(ret.recipe_id) # {}
           THEN /\ ret.status = 200
                /\ ret.addr \in Range(recipes)
                /\ heap[ret.addr].id = ret.recipe_id
           ELSE ret.status = 404

\* the endpoint has answered 200 with a recipe that is not the first of the
\* corpus
LookupByIdWitness ==
    /\ ret.op = "GET /recipes/{recipe_id}"
    /\ ret.status = 200
    /\ heap[ret.addr].id = ret.recipe_id
    /\ heap[recipes[1]].id # ret.recipe_id

\* the rows of the file that are malformed
MalformedIn(rows) == {i \in 1..Len(rows) : rows[i] \in MalformedRows}

\* C10: loading N >= 1 valid rows plus one malformed row never aborts the
\* build: it yields an index with exactly N documents and one skip.
OneMalformedRowSkipped ==
    (/\ pc # "new"
     /\ source.exists
     /\ source.header = Header
     /\ Range(source.rows) \subseteq (ValidRows \cup MalformedRows)
     /\ Cardinality(MalformedIn(source.rows)) = 1
     /\ Len(source.rows) >= 2)
        => /\ pc # "failed"
           /\ Len(recipes) = Len(source.rows) - 1
           /\ skipped = 1

\* C11: building from a missing or unreadable recipes file fails with the
\* error surfaced to the caller and produces no index: no indexer object is
\* kept, so no search, lookup or count is ever served, and the endpoint that
\* tries to build it answers 500.
NoIndexWithoutSource ==
    (pc # "new" /\ (~source.exists \/ ~source.readable)) =>
        /\ pc = "failed"
        /\ error = (IF source.exists THEN "PermissionError" ELSE "FileNotFoundError")
        /\ recipes = <<>>
        /\ heap = <<>>
        /\ tokenized_corpus = <<>>
        /\ bm25 = NoBM25
        /\ ret.op \in {"construct", "GET /recipes/{recipe_id}"}
        /\ ret.op = "GET /recipes/{recipe_id}" => ret.status = 500

\* after the build from a missing file has failed, a request has tried again
\* and has been answered 500
NoIndexWithoutSourceWitness ==
    /\ ~source.exists
    /\ pc = "failed"
    /\ error = "FileNotFoundError"
    /\ ret.op = "GET /recipes/{recipe_id}"
    /\ ret.status = 500

\* C12: an index over a readable file with zero valid recipes is built, and
\* search on it returns an empty list, for every query and k.
EmptyIndexServes ==
    (/\ pc # "new"
     /\ source.exists
     /\ source.readable
     /\ source.header = Header
     /\ Range(source.rows) \subseteq {BadId, <<>>})
        => /\ pc # "failed"
           /\ ret.op = "search" => ret.results = <<>>

\* C13: in every index a build has produced the recipe ids are pairwise
\* distinct, also when the file holds two rows with the same id.
UniqueIds ==
    pc \notin {"new", "failed"} =>
        \A i, j \in 1..Len(recipes) :
            i # j => heap[recipes[i]].id # heap[recipes[j]].id

\* entry i of the tokenized corpus is the tokens of recipe i's ingredients
\* followed by its title key terms
CorpusAligned ==
    /\ Len(tokenized_corpus) = Len(recipes)
    /\ \A i \in 1..Len(recipes) :
           tokenized_corpus[i]
               = ingredient_tokens(synonyms, heap[recipes[i]].ingredients)
                     \o extract_key_terms(synonyms, heap[recipes[i]].title)

\* the indexer has been built and no search has returned recipes since:
\* its caller is the startup event or the first request
JustBuilt ==
    /\ pc \notin {"new", "failed"}
    /\ ~searched
    /\ ret.op \in {"construct", "GET /recipes/{recipe_id}"}

\* no step of a search, lookup or count changes the corpus, the collection,
\* or a stored recipe's ingredients or title
AlignedStep ==
    pc \notin {"new", "failed"} =>
        /\ tokenized_corpus' = tokenized_corpus
        /\ recipes' = recipes
        /\ \A i \in 1..Len(recipes) :
               /\ heap'[recipes[i]].ingredients = heap[recipes[i]].ingredients
               /\ heap'[recipes[i]].title = heap[recipes[i]].title

\* C14: after construction and after any sequence of search, lookup and
\* count operations the tokenized corpus has as many entries as the recipe
\* collection, and entry i is the tokens of recipe i's ingredients followed
\* by its title key terms: the build leaves it so, and every later step
\* keeps the corpus and what it was derived from.
CorpusStaysAligned == [](JustBuilt => CorpusAligned) /\ [][AlignedStep]_vars

\* a count has returned after an earlier search returned recipes from a
\* corpus of three recipes, one of them without ingredient tokens kept
CorpusStaysAlignedWitness ==
    /\ pc = "returned"
    /\ searched
    /\ ret.op = "get_recipe_count"
    /\ ret.count = 3
    /\ Len(tokenized_corpus) = 3
    /\ CorpusAligned

\* C15: with a synonym table mapping 'scallion' to 'green onion',
\* tokenize_ingredients('scallion') equals tokenize_ingredients('green
\* onion'), and a search for ['scallion'] has the query tokens of a search
\* for ['green onion'].
SynonymTokenizesAlike ==
    ret.op = "tokenize canonical" =>
        /\ ret.tokens = ret.canonical_tokens
        /\ ret.query_tokens = ret.canonical_query_tokens

\* 'scallion' and 'green onion' have both been tokenized under the scallion
\* table, each into the one token 'green onion'
SynonymTokenizesAlikeWitness ==
    /\ ret.op = "tokenize canonical"
    /\ ret.text = "scallion"
    /\ ret.canonical = "green onion"
    /\ ret.tokens = <<"green onion">>
    /\ ret.query_tokens = <<"green", "onion">>

\* normalize without the synonym step
NormalizeUnmapped(text, remove_stopwords) ==
    join(" ", drop_stopwords(lemmatize_words(split(apply_plural(clean(text)))),
                             remove_stopwords))

\* C16: when the synonyms file is missing the normalizer is constructed with
\* an empty synonym table, and normalize returns for every input what it
\* returns without synonym substitution.
MissingSynonymsNoSubstitution ==
    ~synonyms_file.exists =>
        /\ synonyms = NoSynonyms
        /\ ret.op = "normalize"
               => ret.out = NormalizeUnmapped(ret.text, ret.remove_stopwords)

\* with the synonyms file missing, normalize has returned 'scallion' for
\* 'scallion', a key of the table the file would have held
MissingSynonymsNoSubstitutionWitness ==
    /\ ~synonyms_file.exists
    /\ ret.op = "normalize"
    /\ ret.text = "scallion"
    /\ ret.out = "scallion"

\* C17: two search calls with identical ingredients and k on the same built
\* index, with any other search or lookup calls in between, return
\* identical ordered recipe lists with identical scores.
SearchDeterministic ==
    (/\ pc = "returned"
     /\ ret.op = "search"
     /\ memo.op = "search"
     /\ memo.ingredients = ret.ingredients
     /\ memo.k = ret.k)
        => Returned = memo.recipes

\* a search has returned the two scored recipes an earlier search with the
\* same arguments returned, other calls having returned in between
SearchDeterministicWitness ==
    /\ pc = "returned"
    /\ ret.op = "search"
    /\ memo.op = "search"
    /\ memo.ingredients = ret.ingredients
    /\ memo.k = ret.k
    /\ memo.between
    /\ Len(memo.recipes) >= 2
    /\ memo.recipes[1].score.v # 0
    /\ Returned = memo.recipes

\* C18: every request GET /recipes with limit L or POST /suggest with
\* max_results L that is answered with recipes (status 200) has at most L
\* recipes in the response, and total_results is their number, whether the
\* generator or the local search supplied them.
LimitRespected ==
    (ret.op \in {"GET /recipes", "POST /suggest"} /\ ret.status = 200) =>
        /\ Len(ret.recipes) <= ret.limit
        /\ ret.total_results = Len(ret.recipes)

\* C19: a recipe request without ingredients is answered 400 and triggers
\* neither the generator nor a local search: GET /recipes whose s holds no
\* non-blank item, and POST /suggest whose ingredients list is empty.
NoIngredientsRejected ==
    (\/ ret.op = "GET /recipes" /\ parse_ingredients(ret.query) = <<>>
     \/ ret.op = "POST /suggest" /\ ret.query = <<>>)
        => /\ ret.status = 400
           /\ ~ret.generator
           /\ ~ret.local

\* C20: under any interleaving of concurrent callers of get_indexer and
\* get_or_create_indexer that start while no instance exists, at most one
\* RecipeIndexer is built, exactly one once a caller has returned, and all
\* callers that have returned received the same instance.
BuiltOnce ==
    /\ builds <= 1
    /\ \A i \in DOMAIN callers :
          callers[i].at = "done" => builds = 1 /\ callers[i].got = 1
    /\ \A i, j \in DOMAIN callers :
          (callers[i].at = "done" /\ callers[j].at = "done")
              => callers[i].got = callers[j].got

RECURSIVE HasWhitespace(_)
HasWhitespace(s) == s # "" /\ (IsSpace(Head(s)) \/ HasWhitespace(Tail(s)))

\* C21: the result of tokenize_ingredients is a flat sequence of
\* single-word tokens: no element contains whitespace, and the result is
\* the whitespace-split pieces of its segments concatenated in order.
TokensAreWords ==
    ret.op = "tokenize" =>
        /\ \A i \in DOMAIN ret.tokens : ~HasWhitespace(ret.tokens[i])
        /\ ret.tokens = Flatten(SplitEach(ret.tokens))

IsUnitWord(w) ==
    \E i \in DOMAIN Units : w = Units[i] \/ w = Units[i] \o "s"

\* C22: for a segment made of a number followed by an ingredient word that
\* is not a whole unit word, tokenize_ingredients gives what it gives for
\* the word alone, also when the word begins with a unit's letters.
QuantityStrippingKeepsWord ==
    (ret.op = "tokenize quantity" /\ ~IsUnitWord(ret.word)) =>
        ret.tokens = ret.word_tokens

\* the ingredients the handler of the answered request worked on
AnsweredIngredients ==
    IF ret.op = "GET /recipes" THEN parse_ingredients(ret.query) ELSE ret.query

\* what the generator gave the handler of the answered request
AnsweredGenerated == from_generator(ret.gen, AnsweredIngredients, ret.limit)

\* C23: in both recipe endpoints the local search runs only when the
\* generator was unavailable, failed or returned an empty list; a non-empty
\* list from the generator is the response's list as it is; and every
\* recipe in a response has a score of at least 0.5.
FallbackOrdered ==
    (ret.op \in {"GET /recipes", "POST /suggest"} /\ ret.status = 200) =>
        /\ ret.local => AnsweredGenerated = <<>>
        /\ AnsweredGenerated # <<>> => ret.recipes = AnsweredGenerated
        /\ \A i \in DOMAIN ret.recipes : ret.recipes[i].score.v >= MinScore

\* the generator was called and gave nothing usable, and the local search
\* supplied a recipe that passed the score filter
FallbackOrderedWitness ==
    /\ ret.op \in {"GET /recipes", "POST /suggest"}
    /\ ret.status = 200
    /\ ret.gen.key
    /\ ret.gen.kind = "recipes"
    /\ ret.gen.items # <<>>
    /\ ret.local
    /\ ret.recipes # <<>>

====
